---- MODULE Spec2Model ----
(***************************************************************************)
(* Model of src/league.py: the weekly pairing of matchup performances      *)
(* (Performance), the weekly all-play table (WeekResults.df), the season   *)
(* fold (League.historical_results) and the power ranking                  *)
(* (League.power_rankings).                                                *)
(*                                                                         *)
(* Numbers.  natural_wins, expected_wins and luck_index are fractions with *)
(* denominators 2 and num_teams - 1.  They are held exactly, as integer    *)
(* numerators over the common denominator Scale, so 1 is Scale and .5 is   *)
(* Scale \div 2.  Float64 rounding of the quotients and of their sums is   *)
(* not represented.                                                        *)
(*                                                                         *)
(* Inputs.  The records the API returns are well formed: every record has  *)
(* its fields, points are numbers, and the records of one week carry       *)
(* distinct roster_ids.  How many records a week has, and which of them    *)
(* share a matchup_id, is not restricted, nor is a roster of one week      *)
(* required to have a record in another.                                   *)
(*                                                                         *)
(* Order of rows.  group_by is called without maintain_order and sort      *)
(* without maintain_order: polars fixes neither the order of the groups    *)
(* nor the order of rows with equal sort keys.  Within a group the rows    *)
(* keep the order of the frame.                                            *)
(***************************************************************************)
EXTENDS Integers, Sequences, FiniteSets

VARIABLES
    week_results,   \* the WeekResults object last built by get_week_results
    natural_cache,  \* Performance.natural_wins values cached so far, by index
    df,             \* outcome of WeekResults.df on week_results
    pc,             \* position in the power_rankings computation
    settings,       \* league_data['settings'] once fetched
    exception,      \* the exception that ended the computation, or "none"
    week,           \* next week of the comprehension in historical_results
    requested,      \* the fetches of the matchups endpoint, in order: the
                    \* week asked for and the records returned
    dfs,            \* the week tables collected by the comprehension
    historical,     \* League.historical_results
    agg,            \* agg_df of power_rankings, by roster_id
    roster_map,     \* League.roster_map
    rankings        \* outcome of power_rankings, per run

vars == <<week_results, natural_cache, df, pc, settings, exception, week,
          requested, dfs, historical, agg, roster_map, rankings>>

weekVars == <<week_results, natural_cache, df>>

seasonVars == <<pc, settings, exception, week, requested, dfs, historical,
                agg, roster_map, rankings>>

----------------------------------------------------------------------------
(* Bounds of the model *)

MaxTeams == 4

MaxPoints == 2

MaxMatchup == 2

MaxWeek == 3

Rosters == 1..MaxTeams

MatchupIds == 1..MaxMatchup

PointValues == 0..MaxPoints

----------------------------------------------------------------------------
(* Exact arithmetic *)

RECURSIVE Gcd(_, _)
Gcd(a, b) == IF b = 0 THEN a ELSE Gcd(b, a % b)

RECURSIVE LcmUpTo(_)
LcmUpTo(n) == IF n <= 1 THEN 1 ELSE (LcmUpTo(n - 1) * n) \div Gcd(LcmUpTo(n - 1), n)

\* Common denominator of every value the tables hold.
Scale == 2 * LcmUpTo(MaxTeams - 1)

One == Scale

Half == Scale \div 2

RECURSIVE SumSeq(_)
SumSeq(s) == IF s = <<>> THEN 0 ELSE s[1] + SumSeq(Tail(s))

\* The running totals of s, as cum_sum computes them.
RECURSIVE CumSum(_)
CumSum(s) ==
    IF s = <<>> THEN <<>>
    ELSE LET front == SubSeq(s, 1, Len(s) - 1)
         IN  CumSum(front) \o <<SumSeq(front) + s[Len(s)]>>

----------------------------------------------------------------------------
(* Matchup records of one week, as the matchups endpoint returns them *)

Absent == <<0, 0>>

RECURSIVE RecordsUpTo(_, _)
RecordsUpTo(f, i) ==
    IF i = 0 THEN <<>>
    ELSE RecordsUpTo(f, i - 1) \o
         (IF f[i] = Absent THEN <<>>
          ELSE <<[matchup_id |-> f[i][1], roster_id |-> i, points |-> f[i][2]]>>)

\* Every list of records over rosters 1..teams, in roster order.
MatchupsData(teams, mids, pts) ==
    { RecordsUpTo(f, teams) : f \in [1..teams -> {Absent} \cup (mids \X pts)] }

----------------------------------------------------------------------------
(* Performance *)

\* Performance.__init__: the fields read from the record.  reference_data is
\* the one list every Performance of a week refers to; it is held once, in
\* the WeekResults, and handed to the operators below.
Performance(matchup_data) ==
    [matchup_id |-> matchup_data.matchup_id,
     roster_id |-> matchup_data.roster_id,
     points |-> matchup_data.points]

\* The list whose element [0] opponent_matchup_data returns.
OpponentCandidates(perf, reference_data) ==
    SelectSeq(reference_data,
              LAMBDA other: other.matchup_id = perf.matchup_id
                            /\ other.roster_id # perf.roster_id)

\* Indexing [0] raises IndexError on an empty list.
HasOpponent(perf, reference_data) ==
    Len(OpponentCandidates(perf, reference_data)) > 0

opponent_matchup_data(perf, reference_data) ==
    OpponentCandidates(perf, reference_data)[1]

opponent_points(perf, reference_data) ==
    opponent_matchup_data(perf, reference_data).points

\* natural_wins with the first comparison written >=: a tie counts as a win.
natural_wins_ties_won(perf, reference_data) ==
    IF perf.points >= opponent_points(perf, reference_data) THEN One
    ELSE IF perf.points < opponent_points(perf, reference_data) THEN 0
    ELSE Half

natural_wins(perf, reference_data) ==
    IF perf.points > opponent_points(perf, reference_data) THEN One
    ELSE IF perf.points < opponent_points(perf, reference_data) THEN 0
    ELSE Half

----------------------------------------------------------------------------
(* WeekResults *)

NoWeekResults == [week |-> 0, performances |-> <<>>, reference_data |-> <<>>]

\* League.get_week_results on the records the endpoint returned.
WeekResults(w, matchups_data) ==
    [week |-> w,
     performances |-> [i \in 1..Len(matchups_data) |-> Performance(matchups_data[i])],
     reference_data |-> matchups_data]

RECURSIVE Insert(_, _)
Insert(x, sorted) ==
    IF sorted = <<>> THEN <<x>>
    ELSE IF x <= sorted[1] THEN <<x>> \o sorted
    ELSE <<sorted[1]>> \o Insert(x, Tail(sorted))

RECURSIVE SortAsc(_)
SortAsc(s) == IF s = <<>> THEN <<>> ELSE Insert(s[1], SortAsc(Tail(s)))

\* rank(method='max'): the last position of x among the sorted values.
RankMax(x, values) ==
    LET sorted == SortAsc(values)
    IN  CHOOSE i \in 1..Len(sorted) :
            /\ sorted[i] = x
            /\ \A j \in (i + 1)..Len(sorted) : sorted[j] # x

\* rank(method='min'): the first position of x among the sorted values.
RankMin(x, values) ==
    LET sorted == SortAsc(values)
    IN  CHOOSE i \in 1..Len(sorted) :
            /\ sorted[i] = x
            /\ \A j \in 1..(i - 1) : sorted[j] # x

\* The first performance whose natural_wins raises, or 0.
FirstRaising(wr) ==
    IF \A i \in 1..Len(wr.performances) :
           HasOpponent(wr.performances[i], wr.reference_data)
    THEN 0
    ELSE CHOOSE i \in 1..Len(wr.performances) :
            /\ ~HasOpponent(wr.performances[i], wr.reference_data)
            /\ \A j \in 1..(i - 1) :
                   HasOpponent(wr.performances[j], wr.reference_data)

\* The natural_wins the list comprehension of df evaluates and caches.
CachedBy(wr) ==
    LET stop == FirstRaising(wr)
        last == IF stop = 0 THEN Len(wr.performances) ELSE stop - 1
    IN  [i \in 1..last |-> natural_wins(wr.performances[i], wr.reference_data)]

\* The expected wins with the rank divided by num_teams.
ExpectedWinsOverTeams(points, all_points, num_teams) ==
    ((RankMin(points, all_points) - 1) * Scale) \div num_teams

ExpectedWins(points, all_points, num_teams) ==
    ((RankMin(points, all_points) - 1) * Scale) \div (num_teams - 1)

\* The table WeekResults.df builds when no natural_wins raises.
DfRows(wr) ==
    LET num_teams == Len(wr.performances)
        all_points == [i \in 1..num_teams |-> wr.performances[i].points]
    IN  [i \in 1..num_teams |->
            LET perf == wr.performances[i]
                nw == natural_wins(perf, wr.reference_data)
                ew == ExpectedWins(perf.points, all_points, num_teams)
            IN  [week |-> wr.week,
                 roster_id |-> perf.roster_id,
                 points |-> perf.points,
                 natural_wins |-> nw,
                 expected_wins |-> ew,
                 luck_index |-> nw - ew]]

NoDf == [status |-> "none", rows |-> <<>>]

\* WeekResults.df: the table, or the exception of the first natural_wins.
DfOf(wr) ==
    IF FirstRaising(wr) # 0
    THEN [status |-> "IndexError", rows |-> <<>>]
    ELSE [status |-> "ok", rows |-> DfRows(wr)]

----------------------------------------------------------------------------
(* League: the season *)

Min(a, b) == IF a <= b THEN a ELSE b

Max(a, b) == IF a >= b THEN a ELSE b

\* The bound taken as the larger of the two settings.
latest_reg_season_week_max(s) == Max(s.playoff_week_start, s.leg)

latest_reg_season_week(s) == Min(s.playoff_week_start, s.leg)

\* The week tables concatenated last week first.
RECURSIVE ConcatDescending(_)
ConcatDescending(tables) ==
    IF tables = <<>> THEN <<>> ELSE ConcatDescending(Tail(tables)) \o tables[1]

\* pl.concat of the week tables, in list order.
RECURSIVE Concat(_)
Concat(tables) ==
    IF tables = <<>> THEN <<>> ELSE tables[1] \o Concat(Tail(tables))

\* The rows of one group of group_by('roster_id'), in the order of the frame.
GroupRows(frame, id) == SelectSeq(frame, LAMBDA row: row.roster_id = id)

Column(rows, name) == [i \in 1..Len(rows) |-> rows[i][name]]

\* agg_df: one row per roster_id of the frame.  The order of its rows is
\* left open by group_by, so the rows are held by roster_id.
Aggregate(frame) ==
    [id \in { frame[i].roster_id : i \in 1..Len(frame) } |->
        LET rows == GroupRows(frame, id)
        IN  [roster_id |-> id,
             natural_wins |-> SumSeq(Column(rows, "natural_wins")),
             expected_wins |-> SumSeq(Column(rows, "expected_wins")),
             luckstat |-> SumSeq(Column(rows, "luck_index")),
             cumulative_luck |-> CumSum(Column(rows, "luck_index"))]]

\* The members endpoint: members with a team_name and one without.
Members ==
    <<[user_id |-> "u1", display_name |-> "ann", metadata |-> [team_name |-> "Aces"]],
      [user_id |-> "u2", display_name |-> "bob", metadata |-> [avatar |-> "b"]],
      [user_id |-> "u3", display_name |-> "cat", metadata |-> [team_name |-> "Cubs"]]>>

\* The owner_id of roster r: the member of its number, or no member.
OwnerIds(r) == {Members[r].user_id, "nobody"}

\* The rosters endpoint: rosters 1..teams, each owned by its member or by
\* no member.
RostersData(teams) ==
    { [r \in 1..teams |->
          [roster_id |-> r, owner_id |-> owner[r], settings |-> [wins |-> 0]]] :
      owner \in { o \in [1..teams -> {"u1", "u2", "u3", "nobody"}] :
                     \A r \in 1..teams : o[r] \in OwnerIds(r) } }

\* The element roster_map appends for a roster: built from the first member
\* whose user_id is the roster's owner_id, nothing when there is none.
RosterMetadata(roster, members) ==
    LET owners == SelectSeq(members, LAMBDA member: member.user_id = roster.owner_id)
    IN  IF owners = <<>> THEN <<>>
        ELSE <<[roster_id |-> roster.roster_id,
                team_name |-> IF "team_name" \in DOMAIN owners[1].metadata
                              THEN owners[1].metadata.team_name
                              ELSE owners[1].display_name,
                wins |-> roster.settings.wins]>>

RECURSIVE RosterMap(_, _)
RosterMap(rosters, members) ==
    IF rosters = <<>> THEN <<>>
    ELSE RosterMetadata(rosters[1], members) \o RosterMap(Tail(rosters), members)

\* pl.DataFrame of an empty list has no column at all, so a join on
\* roster_id with it raises.
HasRosterIdColumn(map) == map # <<>>

\* The roster_ids of the inner join.
JoinedIds(aggregate, map) ==
    { id \in DOMAIN aggregate : \E i \in 1..Len(map) : map[i].roster_id = id }

\* A row of join(...).drop('roster_id').
JoinedRow(aggregate, map, id) ==
    LET meta == SelectSeq(map, LAMBDA m: m.roster_id = id)[1]
    IN  [natural_wins |-> aggregate[id].natural_wins,
         expected_wins |-> aggregate[id].expected_wins,
         luckstat |-> aggregate[id].luckstat,
         cumulative_luck |-> aggregate[id].cumulative_luck,
         team_name |-> meta.team_name,
         wins |-> meta.wins]

Orders(ids) ==
    { o \in [1..Cardinality(ids) -> ids] : \A i, j \in DOMAIN o : i # j => o[i] # o[j] }

\* sort('expected_wins', descending=True) without maintain_order, on rows
\* whose incoming order group_by left open: every order of the rows that
\* descends by expected_wins can come out.
SortedOrders(aggregate, ids) ==
    { o \in Orders(ids) :
        \A i \in 1..(Cardinality(ids) - 1) :
            aggregate[o[i]].expected_wins >= aggregate[o[i + 1]].expected_wins }

NoRankings == [status |-> "none", rows |-> <<>>]

\* The tables power_rankings can return.
PowerRankingTables(aggregate, map) ==
    IF ~HasRosterIdColumn(map)
    THEN { [status |-> "ColumnNotFoundError", rows |-> <<>>] }
    ELSE { [status |-> "ok",
            rows |-> [i \in DOMAIN o |-> JoinedRow(aggregate, map, o[i])]] :
           o \in SortedOrders(aggregate, JoinedIds(aggregate, map)) }

Runs == {1, 2}

\* The week data of the season's fetches: three rosters, one matchup_id and
\* two scores, so that a week can be empty, hold one record, pair two
\* rosters (leaving the third out) or put all three in one matchup, and the
\* product over the weeks of a season stays small.
SeasonMatchupsData == MatchupsData(3, {1}, {0, 1})

SeasonRostersData == RostersData(3)

----------------------------------------------------------------------------
(* Actions of power_rankings *)

\* latest_reg_season_week: league_data is fetched and the bound of the
\* comprehension is fixed.
LatestRegSeasonWeek ==
    /\ pc = "start"
    /\ \E psw \in 1..MaxWeek, leg \in 1..MaxWeek :
           settings' = [playoff_week_start |-> psw, leg |-> leg]
    /\ week' = 1
    /\ pc' = "weeks"
    /\ UNCHANGED <<weekVars, exception, requested, dfs, historical, agg,
                   roster_map, rankings>>

\* One element of the comprehension: get_week_results(week).df.
HistoricalResultsWeek ==
    /\ pc = "weeks"
    /\ week < latest_reg_season_week(settings)
    /\ \E matchups_data \in SeasonMatchupsData :
           /\ requested' = Append(requested, [week |-> week, matchups_data |-> matchups_data])
           /\ LET table == DfOf(WeekResults(week, matchups_data))
              IN  IF table.status = "ok"
                  THEN /\ dfs' = Append(dfs, table.rows)
                       /\ week' = week + 1
                       /\ UNCHANGED <<pc, exception>>
                  ELSE /\ pc' = "raised"
                       /\ exception' = table.status
                       /\ UNCHANGED <<dfs, week>>
    /\ UNCHANGED <<weekVars, settings, historical, agg, roster_map, rankings>>

\* pl.concat of the collected tables; it raises on an empty list.
HistoricalResults ==
    /\ pc = "weeks"
    /\ week >= latest_reg_season_week(settings)
    /\ IF dfs = <<>>
       THEN /\ pc' = "raised"
            /\ exception' = "ValueError"
            /\ UNCHANGED historical
       ELSE /\ historical' = Concat(dfs)
            /\ pc' = "aggregate"
            /\ UNCHANGED exception
    /\ UNCHANGED <<weekVars, settings, week, requested, dfs, agg, roster_map, rankings>>

GroupByAgg ==
    /\ pc = "aggregate"
    /\ agg' = Aggregate(historical)
    /\ pc' = "roster_map"
    /\ UNCHANGED <<weekVars, settings, exception, week, requested, dfs,
                   historical, roster_map, rankings>>

\* roster_map: rosters and members are fetched and matched.
BuildRosterMap ==
    /\ pc = "roster_map"
    /\ \E rosters \in SeasonRostersData : roster_map' = RosterMap(rosters, Members)
    /\ pc' = "join"
    /\ UNCHANGED <<weekVars, settings, exception, week, requested, dfs,
                   historical, agg, rankings>>

\* join, drop and sort, in one of the runs on these inputs.
JoinAndSort(run) ==
    /\ pc = "join"
    /\ rankings[run] = NoRankings
    /\ \E table \in PowerRankingTables(agg, roster_map) :
           rankings' = [rankings EXCEPT ![run] = table]
    /\ UNCHANGED <<weekVars, pc, settings, exception, week, requested, dfs,
                   historical, agg, roster_map>>

----------------------------------------------------------------------------
(* Actions on one week *)

GetWeekResults(w, matchups_data) ==
    /\ week_results' = WeekResults(w, matchups_data)
    /\ natural_cache' = <<>>
    /\ df' = NoDf
    /\ UNCHANGED seasonVars

Df ==
    /\ week_results # NoWeekResults
    /\ df = NoDf
    /\ df' = DfOf(week_results)
    /\ natural_cache' = CachedBy(week_results)
    /\ UNCHANGED <<week_results, seasonVars>>

----------------------------------------------------------------------------
(* Properties of one week *)

Performances == week_results.performances

NumTeams == Len(Performances)

\* The performances of the week that carry matchup_id m.
WithMatchup(m) == { i \in 1..NumTeams : Performances[i].matchup_id = m }

DfDone == df # NoDf

\* Some matchup_id of the week has one performance, or three or more.
BadCardinality ==
    \E m \in MatchupIds : Cardinality(WithMatchup(m)) \notin {0, 2}

\* What the pairing rule gives a performance scoring mine against theirs.
OutcomeOf(mine, theirs) ==
    IF mine > theirs THEN One ELSE IF mine < theirs THEN 0 ELSE Half

\* C1: for every matchup_id with exactly two performances a and b,
\* natural_wins of a and of b are each 0, .5 or 1 and sum to 1: the higher
\* scorer has 1, the lower 0, both .5 on equal points.  This holds of the
\* property itself and of every value df cached or put in a row.
C1_NaturalWinsOfPair ==
    \A m \in MatchupIds :
        Cardinality(WithMatchup(m)) = 2 =>
            \A a, b \in WithMatchup(m) :
                a # b =>
                    LET pa == Performances[a]
                        pb == Performances[b]
                        ref == week_results.reference_data
                    IN  /\ HasOpponent(pa, ref)
                        /\ natural_wins(pa, ref) \in {0, Half, One}
                        /\ natural_wins(pa, ref) = OutcomeOf(pa.points, pb.points)
                        /\ natural_wins(pa, ref) + natural_wins(pb, ref) = One
                        /\ a \in DOMAIN natural_cache =>
                               natural_cache[a] = OutcomeOf(pa.points, pb.points)
                        /\ df.status = "ok" =>
                               /\ df.rows[a].natural_wins = OutcomeOf(pa.points, pb.points)
                               /\ df.rows[a].natural_wins + df.rows[b].natural_wins = One

\* A table of two matchups of two, one tied and one decided.
C1_Witness ==
    /\ df.status = "ok"
    /\ \E m1, m2 \in MatchupIds :
        /\ m1 # m2
        /\ Cardinality(WithMatchup(m1)) = 2
        /\ Cardinality(WithMatchup(m2)) = 2
        /\ \E a, b \in WithMatchup(m1) :
              a # b /\ df.rows[a].natural_wins = Half /\ df.rows[b].natural_wins = Half
        /\ \E a, b \in WithMatchup(m2) :
              a # b /\ df.rows[a].natural_wins = One /\ df.rows[b].natural_wins = 0

\* C2: in every table df produces, natural_wins sums to num_teams / 2.
C2_SumOfNaturalWins ==
    df.status = "ok" =>
        2 * SumSeq([i \in 1..Len(df.rows) |-> df.rows[i].natural_wins])
            = NumTeams * One

\* The performances of the week with strictly fewer points than performance i.
StrictlyLower(i) ==
    { j \in 1..NumTeams : Performances[j].points < Performances[i].points }

\* C3: with num_teams >= 2, expected_wins of a roster is the number of
\* performances of the week with strictly lower points over num_teams - 1,
\* so rosters with equal points have the value of the lowest rank of their
\* group.
C3_ExpectedWinsIsMinRank ==
    (df.status = "ok" /\ NumTeams >= 2) =>
        /\ Len(df.rows) = NumTeams
        /\ \A i \in 1..NumTeams :
              /\ df.rows[i].roster_id = Performances[i].roster_id
              /\ df.rows[i].expected_wins * (NumTeams - 1)
                    = Cardinality(StrictlyLower(i)) * One
        /\ \A i, j \in 1..NumTeams :
              Performances[i].points = Performances[j].points =>
                  df.rows[i].expected_wins = df.rows[j].expected_wins

\* Two rosters tied above a lower one and below a higher one.
C3_Witness ==
    /\ df.status = "ok"
    /\ ~BadCardinality
    /\ NumTeams = 4
    /\ \E i, j \in 1..NumTeams :
          /\ i # j
          /\ Performances[i].points = Performances[j].points
          /\ Cardinality(StrictlyLower(i)) = 1
          /\ \E k \in 1..NumTeams : Performances[k].points > Performances[i].points
          /\ df.rows[i].expected_wins * 3 = One
          /\ df.rows[j].expected_wins * 3 = One

StrictlyLowest(i) ==
    \A j \in 1..NumTeams : j # i => Performances[i].points < Performances[j].points

StrictlyHighest(i) ==
    \A j \in 1..NumTeams : j # i => Performances[i].points > Performances[j].points

\* C4: in every row of every table df produces expected_wins is in [0, 1];
\* the roster strictly below every other has 0 and the roster strictly
\* above every other has 1.
C4_ExpectedWinsRange ==
    df.status = "ok" =>
        \A i \in 1..Len(df.rows) :
            /\ 0 <= df.rows[i].expected_wins
            /\ df.rows[i].expected_wins <= One
            /\ StrictlyLowest(i) => df.rows[i].expected_wins = 0
            /\ StrictlyHighest(i) => df.rows[i].expected_wins = One

\* A table of at least three rows with a single lowest and a single highest.
C4_Witness ==
    /\ df.status = "ok"
    /\ ~BadCardinality
    /\ NumTeams >= 3
    /\ \E i, j \in 1..NumTeams :
          /\ StrictlyLowest(i) /\ df.rows[i].expected_wins = 0
          /\ StrictlyHighest(j) /\ df.rows[j].expected_wins = One

\* C5: when a matchup_id of the week does not have exactly two
\* performances, df fails with the pairing exception and produces no row.
C5_PairingFails ==
    (DfDone /\ BadCardinality) => (df.status # "ok" /\ df.rows = <<>>)

\* C6: with fewer than two performances df fails and yields no row.
C6_InsufficientTeamsFails ==
    (DfDone /\ NumTeams < 2) => (df.status # "ok" /\ df.rows = <<>>)

----------------------------------------------------------------------------
(* Properties of the season *)

\* min(playoff_week_start, leg) of the fetched settings.
RegularSeasonBound ==
    IF settings.playoff_week_start <= settings.leg
    THEN settings.playoff_week_start
    ELSE settings.leg

\* The records of a week pair up: at least two, and two per matchup_id.
PairedWeek(matchups_data) ==
    /\ Len(matchups_data) >= 2
    /\ \A i \in 1..Len(matchups_data) :
          Cardinality({ j \in 1..Len(matchups_data) :
                          matchups_data[j].matchup_id = matchups_data[i].matchup_id }) = 2

\* Every week fetched so far pairs up.
PairedSeason == \A k \in 1..Len(requested) : PairedWeek(requested[k].matchups_data)

Concatenated == pc \in {"aggregate", "roster_map", "join"}

Aggregated == pc \in {"roster_map", "join"}

\* Whether roster id has a row in the table of week k.
InWeek(id, k) == \E i \in 1..Len(dfs[k]) : dfs[k][i].roster_id = id

\* The value of column name in the row of roster id in week k, 0 without one.
WeekValue(id, k, name) == SumSeq(Column(GroupRows(dfs[k], id), name))

\* The sum of column name of roster id over the tables of weeks 1..k.
RECURSIVE SumOverWeeks(_, _, _)
SumOverWeeks(id, k, name) ==
    IF k = 0 THEN 0
    ELSE SumOverWeeks(id, k - 1, name) + WeekValue(id, k, name)

\* C7: the season aggregate folds exactly the weeks 1 .. min(playoff_week_start,
\* leg) - 1, each once and in ascending order: only these weeks are fetched,
\* historical_results is their tables in week order, and the sums of the
\* aggregate are the sums over these weeks.
C7_FoldsRegularSeasonWeeks ==
    /\ \A k \in 1..Len(requested) :
          requested[k].week = k /\ k < RegularSeasonBound
    /\ Concatenated =>
          /\ Len(requested) = RegularSeasonBound - 1
          /\ Len(dfs) = RegularSeasonBound - 1
          /\ \A k \in 1..Len(dfs) :
                /\ Len(dfs[k]) = Len(requested[k].matchups_data)
                /\ \A i \in 1..Len(dfs[k]) :
                      /\ dfs[k][i].week = k
                      /\ dfs[k][i].roster_id = requested[k].matchups_data[i].roster_id
                      /\ dfs[k][i].points = requested[k].matchups_data[i].points
                /\ SelectSeq(historical, LAMBDA row: row.week = k) = dfs[k]
          /\ \A i \in 1..(Len(historical) - 1) :
                historical[i].week <= historical[i + 1].week
          /\ \A i \in 1..Len(historical) :
                historical[i].week \in 1..(RegularSeasonBound - 1)
    /\ Aggregated =>
          \A id \in DOMAIN agg :
              /\ agg[id].natural_wins
                    = SumOverWeeks(id, RegularSeasonBound - 1, "natural_wins")
              /\ agg[id].expected_wins
                    = SumOverWeeks(id, RegularSeasonBound - 1, "expected_wins")
              /\ agg[id].luckstat
                    = SumOverWeeks(id, RegularSeasonBound - 1, "luck_index")
              /\ Len(agg[id].cumulative_luck)
                    = Cardinality({k \in 1..(RegularSeasonBound - 1) : InWeek(id, k)})

\* An aggregate of a season whose leg is past the week the playoffs start.
C7_Witness ==
    /\ Aggregated
    /\ settings.playoff_week_start < settings.leg
    /\ Len(requested) = 1
    /\ PairedSeason
    /\ \E id \in DOMAIN agg : agg[id].natural_wins = One

\* The included weeks in which roster id has a row, ascending.
RECURSIVE WeeksOf(_, _)
WeeksOf(id, k) ==
    IF k = 0 THEN <<>>
    ELSE WeeksOf(id, k - 1) \o (IF InWeek(id, k) THEN <<k>> ELSE <<>>)

\* The luck_index of roster id in its first n weeks, summed.
RECURSIVE LuckOverOwnWeeks(_, _, _)
LuckOverOwnWeeks(id, own, n) ==
    IF n = 0 THEN 0
    ELSE LuckOverOwnWeeks(id, own, n - 1) + WeekValue(id, own[n], "luck_index")

InBoth ==
    { id \in DOMAIN agg : \E i \in 1..Len(roster_map) : roster_map[i].roster_id = id }

\* C9: the power-ranking table has one row for exactly the roster_ids
\* present in both the aggregate and the roster metadata, without an
\* error for those on one side only; its rows descend by expected_wins and
\* it has no roster_id column.  Stated of the seasons whose every week
\* pairs up.
C9_RankingTable ==
    \A run \in Runs :
        (rankings[run] # NoRankings /\ PairedSeason) =>
            LET rows == rankings[run].rows
            IN  /\ rankings[run].status = "ok"
                /\ Len(rows) = Cardinality(InBoth)
                /\ \A id \in InBoth :
                      \E i \in 1..Len(rows) :
                          /\ rows[i].expected_wins = agg[id].expected_wins
                          /\ rows[i].luckstat = agg[id].luckstat
                          /\ \E j \in 1..Len(roster_map) :
                                /\ roster_map[j].roster_id = id
                                /\ rows[i].team_name = roster_map[j].team_name
                /\ \A i \in 1..(Len(rows) - 1) :
                      rows[i].expected_wins >= rows[i + 1].expected_wins
                /\ \A i \in 1..Len(rows) : "roster_id" \notin DOMAIN rows[i]

\* C10: two runs of the power-ranking build on the same inputs return the
\* same table, rows of equal expected_wins in the same order.  Stated of
\* the seasons whose every week pairs up.
C10_Deterministic ==
    (rankings[1] # NoRankings /\ rankings[2] # NoRankings /\ PairedSeason) =>
        rankings[1] = rankings[2]

----------------------------------------------------------------------------

Init ==
    /\ week_results = NoWeekResults
    /\ natural_cache = <<>>
    /\ df = NoDf
    /\ pc = "start"
    /\ settings = [playoff_week_start |-> 0, leg |-> 0]
    /\ exception = "none"
    /\ week = 0
    /\ requested = <<>>
    /\ dfs = <<>>
    /\ historical = <<>>
    /\ agg = <<>>
    /\ roster_map = <<>>
    /\ rankings = [run \in Runs |-> NoRankings]

NextWeek ==
    \/ /\ week_results = NoWeekResults
       /\ \E w \in {1}, d \in MatchupsData(MaxTeams, MatchupIds, PointValues) :
              GetWeekResults(w, d)
    \/ Df

SpecWeek == Init /\ [][NextWeek]_vars

Next ==
    \/ LatestRegSeasonWeek
    \/ HistoricalResultsWeek
    \/ HistoricalResults
    \/ GroupByAgg
    \/ BuildRosterMap
    \/ \E run \in Runs : JoinAndSort(run)

Spec == Init /\ [][Next]_vars

====
